---- MODULE Spec2Model ----
(***************************************************************************)
(* Model of the shape handlers (lava/lib/dnf/operations/shape_handlers.py) *)
(* and of the operations with their projection engine                      *)
(* (lava/lib/dnf/operations/operations.py) of lava-dnf.                    *)
(*                                                                         *)
(* One instance of one class is constructed (Init) and is then driven by   *)
(* its caller through configure(input_shape), compute_weights() and        *)
(* assert_configured().  Python tuples are sequences; axis indices keep    *)
(* their 0-based Python values and are shifted by one only where a         *)
(* sequence is indexed.  A weight matrix is exact: every entry is          *)
(* data[r][c] / den.                                                       *)
(***************************************************************************)
EXTENDS Integers, Sequences, FiniteSets, TLC

VARIABLES
    cls,             \* class of the instance
    weight,          \* Weights.weight
    reduce_dims,     \* ReduceDims(Handler).reduce_dims
    reduce_method,   \* ReduceDims.reduce_method
    new_dims_shape,  \* ExpandDims(Handler).new_dims_shape
    order,           \* Reorder(Handler)._order
    input_shape,     \* _input_shape, None or Some(tuple)
    output_shape,    \* _output_shape, None or Some(tuple)
    last_configure,  \* history: outcome of the latest configure(), or Never
    assigned,        \* history: an attribute was assigned after construction
    ret              \* outcome of the most recent call

vars == << cls, weight, reduce_dims, reduce_method, new_dims_shape, order,
           input_shape, output_shape, last_configure, assigned, ret >>

params == << cls, weight, reduce_dims, reduce_method, new_dims_shape, order >>

----------------------------------------------------------------------------
(* Bounds of the model *)

\* largest number of axes of an input shape handed to configure
MaxDims == 3
\* largest size of one axis
MaxSize == 2
\* largest number of units of a shape handed to configure
MaxNeurons == 4
\* the entries of a tuple of axis indices range over -1 .. MaxIdx
MaxIdx == 1
\* longest arbitrary tuple given as reduce_dims, order, new_dims_shape or
\* output_shape
MaxParamLen == 2
\* Weights.weight ranges over 1 .. MaxWeight
MaxWeight == 3

----------------------------------------------------------------------------
(* Python values *)

None == << >>
Some(v) == << v >>
Val(opt) == opt[1]

NoError == "NoError"
Never == "Never"

\* classes of operations.py
OperationClasses == {"Weights", "ReduceDims", "ExpandDims", "Reorder", "Reshape"}
\* classes of shape_handlers.py
HandlerClasses == {"KeepShapeHandler", "ReduceDimsHandler", "ExpandDimsHandler",
                   "ReshapeHandler", "ReorderHandler"}

ReduceMethod == {"SUM", "MEAN"}

\* values that are no member of the enum: the type int, a string
NotReduceMethod == {"int", "str"}

Tuples(maxlen, S) == UNION {[1..n -> S] : n \in 0..maxlen}

Min(a, b) == IF a < b THEN a ELSE b

\* np.arange(n) as a tuple
Arange(n) == [k \in 1..n |-> k - 1]

----------------------------------------------------------------------------
(* lava.lib.dnf.utils.convenience *)

num_dims(shape) == Len(shape)

RECURSIVE num_neurons(_)
num_neurons(shape) ==
    IF shape = << >> THEN 1 ELSE Head(shape) * num_neurons(Tail(shape))

----------------------------------------------------------------------------
(* Helpers shared by the handlers and the operations *)

\* idx_positive = len(shape) + idx if idx < 0 else idx
idx_positive(idx, n) == IF idx < 0 THEN n + idx ELSE idx

\* the bounds test of the validation loops over reduce_dims and order
OutOfBounds(idx, n) == idx_positive(idx, n) < 0 \/ idx_positive(idx, n) >= n

\* the validation loop raises IndexError at the first index out of bounds
ValidateIndices(idxs, n) ==
    IF \E k \in DOMAIN idxs : OutOfBounds(idxs[k], n)
    THEN "IndexError" ELSE NoError

\* tuple(np.delete(np.asarray(arr), obj)) for in-bounds indices obj: the
\* entries of arr whose position is not named by obj, in their order
NpDelete(arr, obj) ==
    LET n == Len(arr)
        removed == {idx_positive(obj[k], n) : k \in DOMAIN obj}
        kept == SelectSeq(Arange(n), LAMBDA i : i \notin removed)
    IN  [k \in 1..Len(kept) |-> arr[kept[k] + 1]]

\* if isinstance(arg, int): arg = (arg,)
AsTuple(i) == << i >>

\* the stored value of a constructor argument given as a bare int or a tuple
TupleArgs(ints, tuples) == {AsTuple(i) : i \in ints} \cup tuples

----------------------------------------------------------------------------
(* shape_handlers.py *)

\* _validate_input_shape of each handler
HandlerValidateInputShape(c, shape) ==
    CASE c = "ReduceDimsHandler" ->
            IF num_dims(shape) = 0 THEN "MisconfiguredOpError" ELSE NoError
      [] c = "ReorderHandler" ->
            IF num_dims(shape) < 2 THEN "MisconfiguredOpError" ELSE NoError
      [] OTHER -> NoError

\* ReduceDimsHandler._validate_args
ReduceDimsValidateArgs(rdims, shape) ==
    IF Len(rdims) = 0 THEN "ValueError"
    ELSE IF Len(rdims) > Len(shape) THEN "ValueError"
    ELSE ValidateIndices(rdims, Len(shape))

\* ExpandDimsHandler._validate_args
ExpandDimsValidateArgs(nds) ==
    IF Len(nds) = 0 THEN "ValueError"
    ELSE IF \E k \in DOMAIN nds : nds[k] < 1 THEN "ValueError"
    ELSE NoError

\* mutant of ReshapeValidateArgs: the numbers of axes are compared
ReshapeValidateArgsDims(ishape, oshape) ==
    IF num_dims(ishape) # num_dims(oshape)
    THEN "MisconfiguredOpError" ELSE NoError

\* ReshapeHandler._validate_args
ReshapeValidateArgs(ishape, oshape) ==
    IF num_neurons(ishape) # num_neurons(oshape)
    THEN "MisconfiguredOpError" ELSE NoError

\* ReorderHandler._validate_args
ReorderValidateArgs(ord, shape) ==
    IF Len(ord) # num_dims(shape) THEN "MisconfiguredOpError"
    ELSE ValidateIndices(ord, Len(shape))

\* _validate_args of each handler, called with _input_shape already stored
HandlerValidateArgs(c, shape) ==
    CASE c = "ReduceDimsHandler" -> ReduceDimsValidateArgs(reduce_dims, shape)
      [] c = "ExpandDimsHandler" -> ExpandDimsValidateArgs(new_dims_shape)
      [] c = "ReshapeHandler" -> ReshapeValidateArgs(shape, Val(output_shape))
      [] c = "ReorderHandler" -> ReorderValidateArgs(order, shape)
      [] OTHER -> NoError

\* mutant of ReduceDimsOutputShape: the empty result is not replaced by (1,)
ReduceDimsOutputShapeNoCollector(shape, rdims) == NpDelete(shape, rdims)

\* the output shape after all axes named by reduce_dims are deleted
ReduceDimsOutputShape(shape, rdims) ==
    LET deleted == NpDelete(shape, rdims)
    IN  IF deleted = << >> THEN << 1 >> ELSE deleted

\* the concatenation computed by ExpandDims, before its ceiling is tested
ExpandDimsOutputShape(shape, nds) ==
    IF num_dims(shape) = 0 THEN nds ELSE shape \o nds

\* the ceiling on the dimensionality ExpandDims may produce
MaxExpandDims == 3

\* mutant of ExpandDimsCeiling: the ceiling is tested with >=
ExpandDimsCeilingInclusive(oshape) ==
    IF Len(oshape) >= MaxExpandDims THEN "NotImplementedError" ELSE NoError

\* len(self._output_shape) > 3 raises after _output_shape is assigned
ExpandDimsCeiling(oshape) ==
    IF Len(oshape) > MaxExpandDims THEN "NotImplementedError" ELSE NoError

\* tuple(input_shape[list(self._order)]): numpy indexing, negative indices
\* counted from the end
ReorderOutputShape(shape, ord) ==
    [k \in 1..Len(ord) |-> shape[idx_positive(ord[k], Len(shape)) + 1]]

\* _compute_output_shape of each handler: the new _output_shape and the error
HandlerComputeOutputShape(c, shape) ==
    CASE c = "KeepShapeHandler" -> [out |-> Some(shape), err |-> NoError]
      [] c = "ReduceDimsHandler" ->
            [out |-> Some(ReduceDimsOutputShape(shape, reduce_dims)),
             err |-> NoError]
      [] c = "ExpandDimsHandler" ->
            [out |-> Some(ExpandDimsOutputShape(shape, new_dims_shape)),
             err |-> ExpandDimsCeiling(
                        ExpandDimsOutputShape(shape, new_dims_shape))]
      [] c = "ReshapeHandler" -> [out |-> output_shape, err |-> NoError]
      [] c = "ReorderHandler" ->
            [out |-> Some(ReorderOutputShape(shape, order)), err |-> NoError]

\* AbstractShapeHandler.configure: the shapes and the error it ends with
HandlerConfigure(shape) ==
    LET e1 == HandlerValidateInputShape(cls, shape)
        e2 == HandlerValidateArgs(cls, shape)
        r  == HandlerComputeOutputShape(cls, shape)
    IN  IF e1 # NoError
        THEN [inp |-> input_shape, out |-> output_shape, err |-> e1]
        ELSE IF e2 # NoError
        THEN [inp |-> Some(shape), out |-> output_shape, err |-> e2]
        ELSE [inp |-> Some(shape), out |-> r.out, err |-> r.err]

\* AbstractShapeHandler.assert_configured
HandlerAssertConfigured ==
    IF input_shape = None \/ output_shape = None
    THEN "AssertionError" ELSE NoError

----------------------------------------------------------------------------
(* operations.py: configure *)

\* AbstractReduceDimsOperation._validate_input_shape
OpValidateInputShape(shape) ==
    IF num_dims(shape) = 0 THEN "MisconfiguredOpError" ELSE NoError

\* AbstractReduceDimsOperation._validate_reduce_dims
OpValidateReduceDims(rdims, shape) ==
    IF Len(rdims) = 0 THEN "ValueError"
    ELSE IF Len(rdims) > Len(shape) THEN "ValueError"
    ELSE IF \E k \in DOMAIN rdims : OutOfBounds(rdims[k], Len(shape))
    THEN "IndexError"
    ELSE NoError

\* AbstractReduceDimsOperation._compute_output_shape
OpReduceDimsComputeOutputShape(shape) ==
    LET e1 == OpValidateInputShape(shape)
        e2 == OpValidateReduceDims(reduce_dims, shape)
        deleted == NpDelete(shape, reduce_dims)
    IN  IF e1 # NoError THEN [out |-> output_shape, err |-> e1]
        ELSE IF e2 # NoError THEN [out |-> output_shape, err |-> e2]
        ELSE [out |-> Some(IF deleted = << >> THEN << 1 >> ELSE deleted),
              err |-> NoError]

\* AbstractExpandDimsOperation._validate_new_dims_shape
OpValidateNewDimsShape(nds) ==
    IF Len(nds) = 0 THEN "ValueError"
    ELSE IF \E k \in DOMAIN nds : nds[k] < 1 THEN "ValueError"
    ELSE NoError

\* AbstractExpandDimsOperation._compute_output_shape
OpExpandDimsComputeOutputShape(shape) ==
    LET e1 == OpValidateNewDimsShape(new_dims_shape)
        out == IF num_dims(shape) = 0 THEN new_dims_shape
               ELSE shape \o new_dims_shape
    IN  IF e1 # NoError THEN [out |-> output_shape, err |-> e1]
        ELSE [out |-> Some(out),
              err |-> IF Len(out) > 3 THEN "NotImplementedError" ELSE NoError]

\* AbstractReshapeOperation._validate_output_shape
OpValidateOutputShape(ishape, oshape) ==
    IF num_neurons(ishape) # num_neurons(oshape)
    THEN "MisconfiguredOpError" ELSE NoError

\* Reorder._validate_user_inputs
OpValidateUserInputs(ord, shape) ==
    IF num_dims(shape) < 2 THEN "MisconfiguredOpError"
    ELSE IF Len(ord) # num_dims(shape) THEN "MisconfiguredOpError"
    ELSE IF \E k \in DOMAIN ord : OutOfBounds(ord[k], Len(shape))
    THEN "IndexError"
    ELSE NoError

\* AbstractKeepShapeOperation._compute_output_shape
OpKeepShapeComputeOutputShape(shape) == [out |-> Some(shape), err |-> NoError]

\* Reorder.configure after _input_shape is stored
OpReorderConfigure(shape) ==
    LET e1 == OpValidateUserInputs(order, shape)
    IN  IF e1 # NoError THEN [out |-> output_shape, err |-> e1]
        ELSE OpKeepShapeComputeOutputShape(shape)

\* configure of each operation: every variant stores _input_shape first
OperationConfigure(shape) ==
    LET r == CASE cls = "Weights" -> OpKeepShapeComputeOutputShape(shape)
               [] cls = "ReduceDims" -> OpReduceDimsComputeOutputShape(shape)
               [] cls = "ExpandDims" -> OpExpandDimsComputeOutputShape(shape)
               [] cls = "Reorder" -> OpReorderConfigure(shape)
               [] cls = "Reshape" ->
                    [out |-> output_shape,
                     err |-> OpValidateOutputShape(shape, Val(output_shape))]
    IN  [inp |-> Some(shape), out |-> r.out, err |-> r.err]

----------------------------------------------------------------------------
(* operations.py: the projection engine *)

\* the coordinates of flat index k in an array of the given shape, in the
\* row-major order of numpy's reshape
Unravel(k, shape) ==
    [i \in 1..Len(shape) |->
        (k \div num_neurons(SubSeq(shape, i + 1, Len(shape)))) % shape[i]]

\* mutant of Ones: the two extents are given in the order (input, output)
OnesSwapped(num_neurons_out, num_neurons_in) ==
    [rows |-> num_neurons_in, cols |-> num_neurons_out, den |-> 1,
     data |-> [r \in 1..num_neurons_in |-> [c \in 1..num_neurons_out |-> 1]]]

\* np.ones((num_neurons_out, num_neurons_in))
Ones(num_neurons_out, num_neurons_in) ==
    [rows |-> num_neurons_out, cols |-> num_neurons_in, den |-> 1,
     data |-> [r \in 1..num_neurons_out |-> [c \in 1..num_neurons_in |-> 1]]]

\* numpy's normalize_axis_tuple: the axes counted from the front
NormalizeAxes(axes, ndim) ==
    [k \in 1..Len(axes) |-> IF axes[k] < 0 THEN axes[k] + ndim ELSE axes[k]]

AxesError(axes, ndim) ==
    IF \E k \in DOMAIN axes : axes[k] < -ndim \/ axes[k] >= ndim
    THEN "AxisError"
    ELSE IF \E j, k \in DOMAIN axes :
              j # k /\ NormalizeAxes(axes, ndim)[j] = NormalizeAxes(axes, ndim)[k]
    THEN "ValueError"
    ELSE NoError

\* np.moveaxis(a, source, destination): the error it raises, or the
\* permutation it applies (axis k of the view is axis perm[k] of a)
MoveAxis(ndim, source, destination) ==
    LET src == NormalizeAxes(source, ndim)
        dst == NormalizeAxes(destination, ndim)
        srcSet == {src[k] : k \in DOMAIN src}
        dstSet == {dst[k] : k \in DOMAIN dst}
        rest == SelectSeq(Arange(ndim), LAMBDA i : i \notin srcSet)
        free(p) == Cardinality({q \in 0..(p - 1) : q \notin dstSet})
        e == IF AxesError(source, ndim) # NoError
             THEN AxesError(source, ndim)
             ELSE IF AxesError(destination, ndim) # NoError
             THEN AxesError(destination, ndim)
             ELSE IF Len(source) # Len(destination) THEN "ValueError"
             ELSE NoError
    IN  IF e # NoError THEN [err |-> e, perm |-> << >>]
        ELSE [err |-> NoError,
              perm |-> [p \in 1..ndim |->
                          IF (p - 1) \in dstSet
                          THEN src[CHOOSE k \in DOMAIN dst : dst[k] = p - 1]
                          ELSE rest[free(p - 1) + 1]]]

\* the nested loops conn[a, a, ...] = 1, conn[a, b, a, b, ...] = 1,
\* conn[a, b, c, a, b, c, ...] = 1 over the first `smaller` axes of the view
\* whose axis sizes are csize: the IndexError of an index past its axis
DiagonalError(csize, smaller) ==
    IF 2 * smaller > Len(csize) THEN "IndexError"
    ELSE IF /\ \A j \in 1..smaller : csize[j] >= 1
            /\ \E j \in 1..smaller : csize[j] > csize[smaller + j]
    THEN "IndexError"
    ELSE NoError

\* the value the loops leave at coordinates w of the (unmoved) tensor
DiagonalEntry(w, perm, smaller) ==
    IF \A j \in 1..smaller : w[perm[j] + 1] = w[perm[smaller + j] + 1]
    THEN 1 ELSE 0

\* _project_dims(input_shape, output_shape, out_axes_kept, in_axes_kept)
project_dims(ishape, oshape, out_axes_kept, in_axes_kept) ==
    LET num_neurons_in == num_neurons(ishape)
        num_neurons_out == num_neurons(oshape)
        num_dims_in == num_dims(ishape)
        num_dims_out == num_dims(oshape)
        smaller_num_dims == Min(num_dims_in, num_dims_out)
        shape == oshape \o ishape
        in_kept0 == IF in_axes_kept = None THEN Arange(num_dims_in)
                    ELSE Val(in_axes_kept)
        in_kept == [k \in 1..Len(in_kept0) |-> in_kept0[k] + num_dims_out]
        out_kept == IF out_axes_kept = None THEN Arange(num_dims_out)
                    ELSE Val(out_axes_kept)
        new_axes_out == Arange(Len(out_kept))
        new_axes_in == [k \in 1..Len(in_kept) |-> (k - 1) + Len(new_axes_out)]
        mv == MoveAxis(Len(shape), out_kept \o in_kept,
                       new_axes_out \o new_axes_in)
        csize == [k \in 1..Len(shape) |-> shape[mv.perm[k] + 1]]
        flat == [rows |-> num_neurons_out, cols |-> num_neurons_in, den |-> 1,
                 data |-> [r \in 1..num_neurons_out |->
                            [c \in 1..num_neurons_in |->
                               DiagonalEntry(Unravel(r - 1, oshape)
                                               \o Unravel(c - 1, ishape),
                                             mv.perm, smaller_num_dims)]]]
    IN  IF smaller_num_dims = 0
        THEN [err |-> NoError,
              weights |-> Some(Ones(num_neurons_out, num_neurons_in))]
        ELSE IF mv.err # NoError THEN [err |-> mv.err, weights |-> None]
        ELSE IF smaller_num_dims > 3
        THEN [err |-> "NotImplementedError", weights |-> None]
        ELSE IF DiagonalError(csize, smaller_num_dims) # NoError
        THEN [err |-> DiagonalError(csize, smaller_num_dims), weights |-> None]
        ELSE [err |-> NoError,
              weights |-> Some(flat)]

----------------------------------------------------------------------------
(* operations.py: compute_weights *)

\* mutant of WeightsComputeWeights: np.eye(rows, cols) is not scaled
WeightsComputeWeightsUnscaled(ishape, oshape) ==
    [err |-> NoError,
     weights |-> Some([rows |-> num_neurons(oshape),
                       cols |-> num_neurons(ishape),
                       den |-> 1,
                       data |-> [r \in 1..num_neurons(oshape) |->
                                  [c \in 1..num_neurons(ishape) |->
                                     IF r = c THEN 1 ELSE 0]]])]

\* Weights._compute_weights: np.eye(rows, cols) * weight
WeightsComputeWeights(ishape, oshape) ==
    [err |-> NoError,
     weights |-> Some([rows |-> num_neurons(oshape),
                       cols |-> num_neurons(ishape),
                       den |-> 1,
                       data |-> [r \in 1..num_neurons(oshape) |->
                                  [c \in 1..num_neurons(ishape) |->
                                     IF r = c THEN weight ELSE 0]]])]

\* ReduceMethod.validate(reduce_method)
ReduceMethodValidate(m) ==
    IF m \notin ReduceMethod THEN "TypeError" ELSE NoError

\* the divisor applied to the projected weights by the reduce method
ReduceDivisor(ishape) ==
    IF reduce_method = "MEAN" THEN num_neurons(ishape) ELSE 1

\* mutant of ReduceDimsComputeWeights: in_axes_kept is not passed on
ReduceDimsComputeWeightsNoKept(ishape, oshape) ==
    LET p == project_dims(ishape, oshape, None, None)
    IN  IF p.err # NoError THEN p
        ELSE [err |-> NoError,
              weights |-> Some([Val(p.weights) EXCEPT !.den = ReduceDivisor(ishape)])]

\* ReduceDims._compute_weights
ReduceDimsComputeWeights(ishape, oshape) ==
    LET in_axes_all == Arange(num_dims(ishape))
        in_axes_kept == NpDelete(in_axes_all, reduce_dims)
        p == project_dims(ishape, oshape, None, Some(in_axes_kept))
    IN  IF p.err # NoError THEN p
        ELSE [err |-> NoError,
              weights |-> Some([Val(p.weights) EXCEPT !.den = ReduceDivisor(ishape)])]

\* mutant of ExpandDimsComputeWeights: out_axes_kept is not passed on
ExpandDimsComputeWeightsNoKept(ishape, oshape) ==
    project_dims(ishape, oshape, None, None)

\* ExpandDims._compute_weights
ExpandDimsComputeWeights(ishape, oshape) ==
    project_dims(ishape, oshape, Some(Arange(num_dims(ishape))), None)

\* Reorder._compute_weights
ReorderComputeWeights(ishape, oshape) ==
    project_dims(ishape, oshape, Some(order), None)

\* AbstractOperation._compute_weights: the abstract body, which Reshape
\* (AbstractReshapeOperation) does not override: it returns nothing
AbstractComputeWeights(ishape, oshape) == [err |-> NoError, weights |-> None]

\* mutant of OperationGuard: only _output_shape is tested
OperationGuardOutputOnly ==
    IF output_shape = None THEN "AssertionError" ELSE NoError

\* the guard of AbstractOperation.compute_weights
OperationGuard ==
    IF input_shape = None \/ output_shape = None
    THEN "AssertionError" ELSE NoError

\* AbstractOperation.compute_weights
OperationComputeWeights ==
    IF OperationGuard # NoError
    THEN [err |-> OperationGuard, weights |-> None]
    ELSE CASE cls = "Weights" ->
                WeightsComputeWeights(Val(input_shape), Val(output_shape))
           [] cls = "ReduceDims" ->
                ReduceDimsComputeWeights(Val(input_shape), Val(output_shape))
           [] cls = "ExpandDims" ->
                ExpandDimsComputeWeights(Val(input_shape), Val(output_shape))
           [] cls = "Reorder" ->
                ReorderComputeWeights(Val(input_shape), Val(output_shape))
           [] cls = "Reshape" ->
                AbstractComputeWeights(Val(input_shape), Val(output_shape))

----------------------------------------------------------------------------
(* The instance and its caller *)

\* valid shapes a caller may hand to configure: every entry >= 1
InputShapes ==
    {s \in Tuples(MaxDims, 1..MaxSize) : num_neurons(s) <= MaxNeurons}

\* entries of the arbitrary index tuples a caller may pass: the axes from
\* the front, and -1 for the last axis
Idx == (-1)..MaxIdx

\* every order that names each of n axes once
AxisPermutations(n) ==
    {t \in [1..n -> 0..(n - 1)] : \A j, k \in 1..n : j # k => t[j] # t[k]}

\* arguments a caller may construct the classes with: for reduce_dims a bare
\* index within or next to the range of the largest shape, an arbitrary short
\* tuple, or all axes of a shape; for order an arbitrary short tuple or a
\* permutation of the axes of the largest shape
ReduceDimsArgs ==
    TupleArgs((-MaxDims - 1)..MaxDims, Tuples(MaxParamLen, Idx))
        \cup {Arange(n) : n \in 1..MaxDims}
NewDimsShapeArgs == TupleArgs(0..MaxSize, Tuples(MaxParamLen, 0..MaxSize))
OutputShapeArgs == Tuples(MaxParamLen, (-1)..MaxSize)
OrderArgs == Tuples(MaxParamLen, Idx) \cup AxisPermutations(MaxDims)

Absent == None

Constructed(call) ==
    [call |-> call, arg |-> None, err |-> NoError, weights |-> None]

\* AbstractOperation.__init__ and AbstractShapeHandler.__init__
InitShapes ==
    /\ input_shape = None
    /\ output_shape = None
    /\ last_configure = Never
    /\ assigned = FALSE
    /\ ret = Constructed("__init__")

\* Weights(weight) and KeepShapeHandler()
InitKeepShape ==
    /\ InitShapes
    /\ \/ cls = "Weights" /\ weight \in 1..MaxWeight
       \/ cls = "KeepShapeHandler" /\ weight = 0
    /\ reduce_dims = Absent /\ reduce_method = "absent"
    /\ new_dims_shape = Absent /\ order = Absent

\* ReduceDims(reduce_dims, reduce_method) and ReduceDimsHandler(reduce_dims)
InitReduceDims ==
    /\ InitShapes
    /\ \/ cls = "ReduceDims" /\ reduce_method \in ReduceMethod
       \/ cls = "ReduceDimsHandler" /\ reduce_method = "absent"
    /\ reduce_dims \in ReduceDimsArgs
    /\ weight = 0 /\ new_dims_shape = Absent /\ order = Absent

\* ExpandDims(new_dims_shape) and ExpandDimsHandler(new_dims_shape)
InitExpandDims ==
    /\ InitShapes
    /\ cls \in {"ExpandDims", "ExpandDimsHandler"}
    /\ new_dims_shape \in NewDimsShapeArgs
    /\ weight = 0 /\ reduce_dims = Absent /\ reduce_method = "absent"
    /\ order = Absent

\* AbstractReshapeOperation(output_shape) and ReshapeHandler(output_shape):
\* the given output_shape is stored at construction
InitReshape ==
    /\ input_shape = None
    /\ last_configure = Never
    /\ assigned = FALSE
    /\ ret = Constructed("__init__")
    /\ cls \in {"Reshape", "ReshapeHandler"}
    /\ \E s \in OutputShapeArgs : output_shape = Some(s)
    /\ weight = 0 /\ reduce_dims = Absent /\ reduce_method = "absent"
    /\ new_dims_shape = Absent /\ order = Absent

\* Reorder(order) and ReorderHandler(order)
InitReorder ==
    /\ InitShapes
    /\ cls \in {"Reorder", "ReorderHandler"}
    /\ order \in OrderArgs
    /\ weight = 0 /\ reduce_dims = Absent /\ reduce_method = "absent"
    /\ new_dims_shape = Absent

\* the instance after construction
Init ==
    \/ InitKeepShape
    \/ InitReduceDims
    \/ InitExpandDims
    \/ InitReshape
    \/ InitReorder

\* configure(input_shape) of a handler or an operation
Configure(shape) ==
    LET r == IF cls \in HandlerClasses THEN HandlerConfigure(shape)
             ELSE OperationConfigure(shape)
    IN  /\ input_shape' = r.inp
        /\ output_shape' = r.out
        /\ last_configure' = r.err
        /\ ret' = [call |-> "configure", arg |-> Some(shape),
                   err |-> r.err, weights |-> None]
        /\ UNCHANGED << params, assigned >>

\* mutant of ComputeWeights: the call consumes the configuration
ComputeWeightsConsuming ==
    /\ cls \in OperationClasses
    /\ ret' = [call |-> "compute_weights", arg |-> None,
               err |-> OperationComputeWeights.err,
               weights |-> OperationComputeWeights.weights]
    /\ input_shape' = None
    /\ UNCHANGED << params, output_shape, last_configure, assigned >>

\* compute_weights() of an operation
ComputeWeights ==
    /\ cls \in OperationClasses
    /\ ret' = [call |-> "compute_weights", arg |-> None,
               err |-> OperationComputeWeights.err,
               weights |-> OperationComputeWeights.weights]
    /\ UNCHANGED << params, input_shape, output_shape, last_configure,
                    assigned >>

\* assert_configured() of a handler
AssertConfigured ==
    /\ cls \in HandlerClasses
    /\ ret' = [call |-> "assert_configured", arg |-> None,
               err |-> HandlerAssertConfigured, weights |-> None]
    /\ UNCHANGED << params, input_shape, output_shape, last_configure,
                    assigned >>

Next ==
    \/ \E shape \in InputShapes : Configure(shape)
    \/ ComputeWeights
    \/ AssertConfigured

\* an instance of any class
Spec == Init /\ [][Next]_vars

\* an instance of one family of classes
SpecKeepShape == InitKeepShape /\ [][Next]_vars
SpecReduceDims == InitReduceDims /\ [][Next]_vars
SpecExpandDims == InitExpandDims /\ [][Next]_vars
SpecReshape == InitReshape /\ [][Next]_vars

\* the shape with MaxDims axes of MaxSize units each
CubeShape == [k \in 1..MaxDims |-> MaxSize]

\* the shapes handed to configure of Reorder: the cube is the smallest shape
\* that a permutation of three axes of more than one unit maps to itself
ReorderShapes == InputShapes \cup {CubeShape}

NextReorder ==
    \/ \E shape \in ReorderShapes : Configure(shape)
    \/ ComputeWeights
    \/ AssertConfigured

SpecReorder == InitReorder /\ [][NextReorder]_vars

\* an instance of a class of operations.py
InitOperations == Init /\ cls \in OperationClasses

NextOperations ==
    \/ \E shape \in InputShapes : Configure(shape)
    \/ ComputeWeights

SpecOperations == InitOperations /\ [][NextOperations]_vars

\* an instance of a class of shape_handlers.py
InitHandlers == Init /\ cls \in HandlerClasses

NextHandlers ==
    \/ \E shape \in InputShapes : Configure(shape)
    \/ AssertConfigured

SpecHandlers == InitHandlers /\ [][NextHandlers]_vars

\* the caller assigns the attribute Weights.weight
SetWeight(w) ==
    /\ cls = "Weights"
    /\ weight' = w
    /\ assigned' = TRUE
    /\ ret' = [call |-> "set_weight", arg |-> None, err |-> NoError,
               weights |-> None]
    /\ UNCHANGED << cls, reduce_dims, reduce_method, new_dims_shape, order,
                    input_shape, output_shape, last_configure >>

\* the caller assigns the attribute ReduceDims.reduce_method: a plain
\* attribute, nothing is validated
SetReduceMethod(m) ==
    /\ cls = "ReduceDims"
    /\ reduce_method' = m
    /\ assigned' = TRUE
    /\ ret' = [call |-> "set_reduce_method", arg |-> None, err |-> NoError,
               weights |-> None]
    /\ UNCHANGED << cls, weight, reduce_dims, new_dims_shape, order,
                    input_shape, output_shape, last_configure >>

\* an operation whose caller also assigns Weights.weight between the calls
NextMutable ==
    \/ \E shape \in InputShapes : Configure(shape)
    \/ ComputeWeights
    \/ \E w \in 1..MaxWeight : SetWeight(w)

SpecMutable == InitOperations /\ [][NextMutable]_vars

\* ReduceDims(reduce_dims, reduce_method) called with any reduce_method:
\* __init__ ends with the TypeError of ReduceMethod.validate, or the
\* instance exists
InitReduceMethod ==
    /\ input_shape = None
    /\ output_shape = None
    /\ last_configure = Never
    /\ assigned = FALSE
    /\ cls = "ReduceDims"
    /\ reduce_dims \in ReduceDimsArgs
    /\ reduce_method \in ReduceMethod \cup NotReduceMethod
    /\ ret = [call |-> "__init__", arg |-> None,
              err |-> ReduceMethodValidate(reduce_method), weights |-> None]
    /\ weight = 0 /\ new_dims_shape = Absent /\ order = Absent

\* the constructor returned an instance
InstanceExists == ~(ret.call = "__init__" /\ ret.err # NoError)

\* a ReduceDims operation whose caller also assigns reduce_method
NextReduceMethod ==
    \/ \E shape \in InputShapes : InstanceExists /\ Configure(shape)
    \/ InstanceExists /\ ComputeWeights
    \/ \E m \in ReduceMethod \cup NotReduceMethod :
          InstanceExists /\ SetReduceMethod(m)

SpecReduceMethod == InitReduceMethod /\ [][NextReduceMethod]_vars

\* an instance of any class whose caller never calls configure
NextUnconfigured ==
    \/ ComputeWeights
    \/ AssertConfigured

SpecUnconfigured == Init /\ [][NextUnconfigured]_vars

----------------------------------------------------------------------------
(* Vocabulary of the properties *)

ReduceDimsClasses == {"ReduceDims", "ReduceDimsHandler"}
ExpandDimsClasses == {"ExpandDims", "ExpandDimsHandler"}
ReshapeClasses == {"Reshape", "ReshapeHandler"}
ReorderClasses == {"Reorder", "ReorderHandler"}

\* the latest call was configure and it returned without an error
ConfigureSucceeded == ret.call = "configure" /\ ret.err = NoError

\* the latest call was compute_weights on an instance whose latest configure
\* returned without an error
ComputedAfterConfigure ==
    ret.call = "compute_weights" /\ last_configure = NoError

\* the latest call returned a weight matrix
ReturnedMatrix == ret.call = "compute_weights" /\ ret.weights # None

RECURSIVE Product(_)
Product(seq) == IF seq = << >> THEN 1 ELSE seq[1] * Product(Tail(seq))

RECURSIVE Sum(_)
Sum(seq) == IF seq = << >> THEN 0 ELSE seq[1] + Sum(Tail(seq))

\* all coordinate tuples of the units of a population of the given shape
Coords(shape) ==
    {c \in [1..Len(shape) -> 0..(Product(shape) - 1)] :
        \A k \in 1..Len(shape) : c[k] < shape[k]}

\* the flat (row-major) index of the unit at coordinates c
RECURSIVE FlatIndex(_, _)
FlatIndex(c, shape) ==
    IF c = << >> THEN 0
    ELSE c[1] * Product(Tail(shape)) + FlatIndex(Tail(c), Tail(shape))

\* the weight from the input unit at coordinates i to the output unit at
\* coordinates o, as a pair numerator, denominator
WeightAt(m, o, i) ==
    m.data[FlatIndex(o, Val(output_shape)) + 1][FlatIndex(i, Val(input_shape)) + 1]

\* the axis an index names, negative indices counted from the end
AxisOf(idx, n) == IF idx < 0 THEN n + idx ELSE idx

\* the axes named by a tuple of indices
NamedAxes(idxs, n) == {AxisOf(idxs[k], n) : k \in DOMAIN idxs}

\* the entries of shape on the axes not in the set removed, in their order
RECURSIVE Without(_, _, _)
Without(shape, removed, axis) ==
    IF shape = << >> THEN << >>
    ELSE IF axis \in removed THEN Without(Tail(shape), removed, axis + 1)
    ELSE << Head(shape) >> \o Without(Tail(shape), removed, axis + 1)

----------------------------------------------------------------------------
(* Properties *)

C2_Unconfigured ==
    (/\ last_configure = Never
     /\ ret.call \in {"compute_weights", "assert_configured"})
    => (ret.err = "AssertionError" /\ ret.weights = None)

\* witness of C2: compute_weights() was called on a never-configured Reshape
\* whose output_shape is set
C2_Witness ==
    /\ cls = "Reshape"
    /\ last_configure = Never
    /\ output_shape # None
    /\ ret.call = "compute_weights"

\* C3: a successful configure of ReduceDims leaves output_shape equal to
\* input_shape without the axes named by reduce_dims (a negative index i
\* naming axis len(input_shape) + i), the remaining axes in their order, and
\* (1,) if no axis remains; naming an axis by i - len(input_shape) gives the
\* same output_shape as naming it by i.
C3_ReduceDimsOutputShape ==
    (cls \in ReduceDimsClasses /\ ConfigureSucceeded)
    => LET shape == Val(input_shape)
           n == Len(shape)
           left == Without(shape, NamedAxes(reduce_dims, n), 0)
       IN  /\ n > 0
           /\ output_shape = Some(IF left = << >> THEN << 1 >> ELSE left)
           /\ \A i \in 0..(n - 1) :
                /\ ReduceDimsValidateArgs(<< i - n >>, shape) = NoError
                /\ ReduceDimsOutputShape(shape, << i - n >>)
                     = ReduceDimsOutputShape(shape, << i >>)

\* witness of C3: an axis named by a negative index was removed from a
\* two-dimensional input
C3_Witness ==
    /\ cls = "ReduceDimsHandler"
    /\ ConfigureSucceeded
    /\ reduce_dims = << -1 >>
    /\ input_shape = Some(<< 1, 2 >>)
    /\ output_shape = Some(<< 1 >>)

\* C4: for ReduceDims with reduce_method SUM configured so that at least one
\* input axis is retained, the returned matrix has weight 1 from input unit
\* i to output unit o exactly when the coordinates of i on the retained axes
\* equal the coordinates of o, and 0 otherwise; every row sums to the product
\* of the sizes of the removed axes.
C4_ReduceDimsSum ==
    (/\ cls = "ReduceDims"
     /\ reduce_method = "SUM"
     /\ ComputedAfterConfigure
     /\ ReturnedMatrix
     /\ NamedAxes(reduce_dims, Len(Val(input_shape)))
            # 0..(Len(Val(input_shape)) - 1))
    => LET m == Val(ret.weights)
           ishape == Val(input_shape)
           removed == NamedAxes(reduce_dims, Len(ishape))
           removedSizes == [k \in 1..Len(ishape) |->
                              IF (k - 1) \in removed THEN ishape[k] ELSE 1]
       IN  /\ m.den = 1
           /\ \A o \in Coords(Val(output_shape)) : \A i \in Coords(ishape) :
                WeightAt(m, o, i) = IF Without(i, removed, 0) = o THEN 1 ELSE 0
           /\ \A r \in 1..m.rows : Sum(m.data[r]) = Product(removedSizes)

\* witness of C4: the second axis of a 2 x 2 input was summed out, and each
\* of the two rows holds two weights of 1
C4_Witness ==
    /\ cls = "ReduceDims"
    /\ reduce_method = "SUM"
    /\ ComputedAfterConfigure
    /\ input_shape = Some(<< 2, 2 >>)
    /\ reduce_dims = << 1 >>
    /\ ret.weights # None
    /\ Val(ret.weights).data = << << 1, 1, 0, 0 >>, << 0, 0, 1, 1 >> >>

\* C5: for ReduceDims with reduce_method MEAN, every row of the matrix
\* returned by compute_weights() after a successful configure sums to 1.
C5_ReduceDimsMeanRows ==
    (/\ cls = "ReduceDims"
     /\ reduce_method = "MEAN"
     /\ ComputedAfterConfigure
     /\ ReturnedMatrix)
    => LET m == Val(ret.weights)
       IN  \A r \in 1..m.rows : Sum(m.data[r]) = m.den

\* C6: configure(input_shape) of ExpandDims with a non-empty new_dims_shape
\* of entries >= 1 succeeds exactly when len(input_shape) +
\* len(new_dims_shape) <= 3, output_shape then being input_shape followed by
\* new_dims_shape; otherwise it fails with NotImplementedError.
C6_ExpandDimsConfigure ==
    (/\ cls \in ExpandDimsClasses
     /\ ret.call = "configure"
     /\ new_dims_shape # << >>
     /\ \A k \in DOMAIN new_dims_shape : new_dims_shape[k] >= 1)
    => LET shape == Val(ret.arg)
           total == Len(shape) + Len(new_dims_shape)
       IN  /\ (ret.err = NoError) <=> (total <= 3)
           /\ ret.err = NoError =>
                /\ input_shape = Some(shape)
                /\ output_shape = Some(shape \o new_dims_shape)
           /\ total > 3 => ret.err = "NotImplementedError"

\* witness of C6: a one-dimensional input was expanded by two new axes
C6_Witness ==
    /\ cls = "ExpandDimsHandler"
    /\ ConfigureSucceeded
    /\ input_shape = Some(<< 2 >>)
    /\ new_dims_shape = << 1, 2 >>
    /\ output_shape = Some(<< 2, 1, 2 >>)

\* C7: for a configured ExpandDims, compute_weights() returns the matrix
\* with weight 1 from input unit i to output unit o exactly when the leading
\* len(input_shape) coordinates of o equal the coordinates of i, and 0
\* otherwise.
C7_ExpandDimsWeights ==
    (cls = "ExpandDims" /\ ComputedAfterConfigure)
    => /\ ret.err = NoError
       /\ ret.weights # None
       /\ Val(ret.weights).den = 1
       /\ \A o \in Coords(Val(output_shape)) : \A i \in Coords(Val(input_shape)) :
            WeightAt(Val(ret.weights), o, i)
              = IF SubSeq(o, 1, Len(i)) = i THEN 1 ELSE 0

\* witness of C7: a two-unit input was broadcast along a new axis of size 2
C7_Witness ==
    /\ cls = "ExpandDims"
    /\ ComputedAfterConfigure
    /\ input_shape = Some(<< 2 >>)
    /\ output_shape = Some(<< 2, 2 >>)
    /\ ret.weights # None
    /\ Val(ret.weights).data
         = << << 1, 0 >>, << 1, 0 >>, << 0, 1 >>, << 0, 1 >> >>

\* C8: configure(input_shape) of Reshape succeeds if and only if
\* num_neurons(input_shape) = num_neurons(output_shape) for the output_shape
\* given at construction, and fails with MisconfiguredOpError otherwise;
\* output_shape is left as given in either case.
C8_ReshapeConfigure ==
    [][(cls \in ReshapeClasses /\ ret'.call = "configure")
        => /\ output_shape' = output_shape
           /\ (ret'.err = NoError)
                <=> (Product(Val(ret'.arg)) = Product(Val(output_shape)))
           /\ ret'.err \in {NoError, "MisconfiguredOpError"}
           /\ ret'.err = NoError => input_shape' = ret'.arg]_vars

\* witness of C8: a 1 x 2 x 2 input was accepted by a reshape to (2, 2)
C8_Witness ==
    /\ cls = "ReshapeHandler"
    /\ ConfigureSucceeded
    /\ input_shape = Some(<< 1, 2, 2 >>)
    /\ output_shape = Some(<< 2, 2 >>)

\* C9: after a successful configure(input_shape) of Reorder with an order
\* that names every axis of input_shape once, output_shape[i] =
\* input_shape[order[i]] for every axis i, on the ReorderHandler and on the
\* Reorder operation alike.
C9_ReorderOutputShape ==
    (/\ cls \in ReorderClasses
     /\ ConfigureSucceeded
     /\ NamedAxes(order, Len(Val(input_shape))) = 0..(Len(Val(input_shape)) - 1))
    => LET ishape == Val(input_shape)
           oshape == Val(output_shape)
       IN  /\ Len(oshape) = Len(order)
           /\ \A i \in 1..Len(order) :
                oshape[i] = ishape[AxisOf(order[i], Len(ishape)) + 1]

\* an index tuple names some axis twice, or names no axis of an n-axis shape
RepeatedIndex(idxs, n) ==
    \E j, k \in DOMAIN idxs : j # k /\ AxisOf(idxs[j], n) = AxisOf(idxs[k], n)
NoSuchAxis(idxs, n) ==
    \E k \in DOMAIN idxs : AxisOf(idxs[k], n) \notin 0..(n - 1)

\* C10: configure of Reorder fails, with IndexError or
\* MisconfiguredOpError, whenever order contains a repeated axis index or an
\* index out of range for input_shape.
C10_ReorderRejects ==
    (/\ cls \in ReorderClasses
     /\ ret.call = "configure"
     /\ \/ RepeatedIndex(order, Len(Val(ret.arg)))
        \/ NoSuchAxis(order, Len(Val(ret.arg))))
    => ret.err \in {"IndexError", "MisconfiguredOpError"}

\* C11: configure(input_shape) of Weights(weight = w) succeeds with
\* output_shape = input_shape, and compute_weights() then returns w times
\* the N x N identity matrix, N = num_neurons(input_shape): entry (r, c) is
\* w when r = c and 0 otherwise.
C11_WeightsIdentity ==
    /\ (cls = "Weights" /\ ret.call = "configure")
         => (ret.err = NoError /\ input_shape = ret.arg
             /\ output_shape = input_shape)
    /\ (cls = "Weights" /\ ComputedAfterConfigure)
         => LET N == Product(Val(input_shape))
            IN  /\ ret.err = NoError
                /\ ret.weights # None
                /\ Val(ret.weights).rows = N
                /\ Val(ret.weights).cols = N
                /\ Val(ret.weights).den = 1
                /\ Val(ret.weights).data
                     = [r \in 1..N |-> [c \in 1..N |->
                           IF r = c THEN weight ELSE 0]]

\* witness of C11: Weights(weight = 3) configured with (2, 2) returned 3
\* times the 4 x 4 identity
C11_Witness ==
    /\ cls = "Weights"
    /\ weight = 3
    /\ ComputedAfterConfigure
    /\ input_shape = Some(<< 2, 2 >>)
    /\ ret.weights # None
    /\ Val(ret.weights).data
         = << << 3, 0, 0, 0 >>, << 0, 3, 0, 0 >>,
              << 0, 0, 3, 0 >>, << 0, 0, 0, 3 >> >>

C13_FailedConfigureKeepsOutput ==
    [][(ret'.call = "configure" /\ ret'.err # NoError)
        => output_shape' = output_shape]_vars

\* C14: ReduceMethod.validate accepts exactly SUM and MEAN and rejects any
\* other value with TypeError; construction of ReduceDims with any other
\* value fails with TypeError; and compute_weights() returns no matrix
\* while reduce_method is a value other than SUM and MEAN.
C14_ReduceMethodValidated ==
    /\ \A m \in ReduceMethod \cup NotReduceMethod :
          ReduceMethodValidate(m)
            = IF m \in {"SUM", "MEAN"} THEN NoError ELSE "TypeError"
    /\ (cls = "ReduceDims" /\ ret.call = "__init__"
           /\ reduce_method \notin {"SUM", "MEAN"})
         => ret.err = "TypeError"
    /\ (cls = "ReduceDims" /\ reduce_method \notin {"SUM", "MEAN"})
         => ~ReturnedMatrix

\* C15: for Reorder configured with an order that is a permutation of the
\* input axes, with output_shape[i] = input_shape[order[i]],
\* compute_weights() returns the permutation matrix in which the output
\* unit at coordinates o has weight 1 to the input unit at coordinates c
\* with o[i] = c[order[i]] for every axis i, and weight 0 to every other
\* input unit.
C15_ReorderWeights ==
    (/\ cls = "Reorder"
     /\ ComputedAfterConfigure
     /\ order \in AxisPermutations(Len(Val(input_shape)))
     /\ \A i \in 1..Len(order) :
           Val(output_shape)[i] = Val(input_shape)[order[i] + 1])
    => /\ ret.err = NoError
       /\ ret.weights # None
       /\ Val(ret.weights).den = 1
       /\ \A o \in Coords(Val(output_shape)) : \A c \in Coords(Val(input_shape)) :
            WeightAt(Val(ret.weights), o, c)
              = IF \A i \in 1..Len(order) : o[i] = c[order[i] + 1]
                THEN 1 ELSE 0

\* C16: for ReduceDims with reduce_method SUM configured so that every axis
\* of input_shape is removed (output_shape = (1,)), compute_weights()
\* returns the 1 x num_neurons(input_shape) matrix whose entries are all 1.
C16_ReduceAllAxes ==
    (/\ cls = "ReduceDims"
     /\ reduce_method = "SUM"
     /\ ComputedAfterConfigure
     /\ NamedAxes(reduce_dims, Len(Val(input_shape)))
            = 0..(Len(Val(input_shape)) - 1))
    => /\ output_shape = Some(<< 1 >>)
       /\ ret.err = NoError
       /\ ret.weights # None
       /\ Val(ret.weights).den = 1
       /\ Val(ret.weights).data
            = << [c \in 1..Product(Val(input_shape)) |-> 1] >>

\* C17: for Weights, ReduceDims, ExpandDims and Reorder, compute_weights()
\* called after configure(input_shape) returned successfully raises no
\* error and returns a weight matrix.
C17_NoErrorAfterConfigure ==
    (/\ cls \in {"Weights", "ReduceDims", "ExpandDims", "Reorder"}
     /\ ComputedAfterConfigure)
    => (ret.err = NoError /\ ret.weights # None)

\* C18: the guard of assert_configured() or of compute_weights() passes
\* only on an instance whose most recent configure call returned
\* successfully.
C18_ConfiguredOnlyAfterSuccess ==
    (/\ ret.call \in {"assert_configured", "compute_weights"}
     /\ ret.err # "AssertionError")
    => last_configure = NoError

\* C19: after a successful configure(input_shape) of a shape handler with
\* an input_shape of entries >= 1, every entry of output_shape is >= 1,
\* whatever parameters the handler was constructed with.
C19_OutputShapeValid ==
    (/\ cls \in HandlerClasses
     /\ ConfigureSucceeded
     /\ \A k \in DOMAIN Val(input_shape) : Val(input_shape)[k] >= 1)
    => \A k \in DOMAIN Val(output_shape) : Val(output_shape)[k] >= 1

====
